---- MODULE Spec2Model ----
(***************************************************************************)
(* Campaign batch generator of meta-ad-generator.                          *)
(*                                                                         *)
(* The model follows one POST /api/campaign/generate request through the   *)
(* route handler (validation, batch row, generation rows, response), the   *)
(* detached worker pool (withConcurrency / executeItem) and the batch      *)
(* status recomputation (refreshBatchStatus), on top of a relational store *)
(* holding the `generations` and `campaign_batches` tables.                *)
(*                                                                         *)
(* Every action is one step the event loop or the database executes        *)
(* atomically: a synchronous block of the handler, or the execution of one *)
(* SQL statement together with the continuation that runs when its result  *)
(* arrives.                                                                *)
(***************************************************************************)
EXTENDS Integers, Sequences, FiniteSets, TLC

\* ------------------------------------------------------------------ bounds
\* Largest job list that is followed through creation and execution.
MaxJobs == 4
\* Largest job list offered to the submit validation.
MaxLen == 22
\* Number of store statements that may fail in one behaviour.
MaxStoreFaults == 1
\* Number of generation INSERTs of one request that may execute before the
\* INSERT of an earlier list position.
MaxOvertakes == 1
\* Largest job list in the behaviours checked for termination.
MaxFairJobs == 2
\* Number of direct calls of store functions in one behaviour.
MaxCalls == 2
\* Items of a submit whose items carry an index, and the largest index.
MaxIndexedJobs == 2
MaxIndex == 2
\* Characters of a prompt; store statements that fail while one
\* single-generation request is handled.
MaxPromptLen == 3
MaxSingleFaults == 2
\* Concurrent DELETE /api/clients/:id requests.
MaxDeletes == 2
\* Personas and angles of a plan request, and the largest ads_per_combo.
MaxPersonas == 5
MaxAngles == 5
MaxAdsInput == 4

\* --------------------------------------------------------- program constants
BATCH_CONCURRENCY == 3
MAX_BATCH_ITEMS == 20
MAX_COMBOS == 12
MAX_TOTAL_ADS == 20

NULL == "NULL"
\* SQL NULL in an integer column (campaign_batch_id).
NoBatch == 0

Clients == {1, 2}
Goals == {"launch"}

GenStatuses == {"pending", "processing", "done", "failed"}
BatchStatuses == {"running", "done", "failed"}

UPDATABLE ==
  {"status", "generated_images", "selected_image_url", "error",
   "prompt", "headline", "body_copy", "cta",
   "concept", "avatar", "asset_ids",
   "metadata"}

Min(a, b) == IF a < b THEN a ELSE b

VARIABLES
  req,        \* the submit request: [client, isArray, items, goal]
  gens,       \* table generations: id -> row
  batches,    \* table campaign_batches: id -> row
  nextGenId,  \* SERIAL sequence of generations.id
  nextBatchId,\* SERIAL sequence of campaign_batches.id
  spc,        \* position of the submit handler
  batchId,    \* `batch.id` held by the handler (NoBatch before creation)
  ins,        \* per job: 0 insert pending, -1 insert failed, else generation id
  stamp,      \* per job: campaign_batch_id stamp "pending" | "applied" | "failed"
  response,   \* the HTTP response of the submit request
  next,       \* withConcurrency's shared counter (0-based index of next job)
  exec,       \* per job: position of its executeItem call
  pool,       \* withConcurrency's workers that have returned (exited) or rejected (dead)
  falKey,     \* process.env.FAL_KEY is set
  falFailure, \* how a provider request fails in this behaviour, when it fails
  falRaw,     \* data.images of a provider response in this behaviour
  faults,     \* store statements that have failed so far
  overtakes,  \* INSERTs that have executed before an earlier position's INSERT
  calls,      \* per job: number of generateImages invocations
  claimed,    \* per job: number of times a worker claimed its index
  call,       \* the last direct call of a store function, with its result
  abandoned,  \* provider requests the race has left behind on timeout and
              \* that have not completed at the provider (see SpecProvider)
  single,     \* the single-generation request (POST /api/generate) and its handler
  clientIds,  \* table clients: the ids of its rows
  del,        \* the DELETE /api/clients/:id requests: target and handler position
  plan        \* the campaign plan request and the item list built for it

env == <<req, falKey, falFailure, falRaw>>
\* State of the routes beside the campaign batch route.
side == <<single, clientIds, del, plan>>
store == <<gens, batches, nextGenId, nextBatchId>>
handler == <<spc, batchId, ins, stamp, response>>
poolVars == <<next, exec, pool, claimed>>

vars ==
  <<env, store, handler, poolVars, faults, overtakes, calls, call, abandoned,
    side>>

N == Len(req.items)
Jobs == 1..N

\* ------------------------------------------------------- JavaScript values
\* A property that is absent.
UNDEFINED == "undefined"

\* v ?? d
Coalesce(v, d) == IF v \in {NULL, UNDEFINED} THEN d ELSE v

\* !v for the values a URL property takes
Falsy(v) == v \in {NULL, UNDEFINED, ""}

\* An array argument, or a value for which Array.isArray is false.
JsArray(items) == [isArray |-> TRUE, items |-> items]
NotArray == [isArray |-> FALSE, items |-> <<>>]

\* An image entry is a string (type "string", its text in url), an object
\* (type "object", absent properties UNDEFINED) or another value such as null
\* or a number (type "other").
ImageValue(type, url, width, content_type, is_selected, status) ==
  [type |-> type, url |-> url, width |-> width, height |-> width,
   content_type |-> content_type, is_selected |-> is_selected,
   score |-> UNDEFINED, status |-> status]

ImageString(s) ==
  ImageValue("string", s, UNDEFINED, UNDEFINED, UNDEFINED, UNDEFINED)

ImageObject(url) ==
  ImageValue("object", url, UNDEFINED, UNDEFINED, UNDEFINED, UNDEFINED)

ImageOther ==
  ImageValue("other", UNDEFINED, UNDEFINED, UNDEFINED, UNDEFINED, UNDEFINED)

\* img?.p
Prop(img, p) == IF img.type = "object" THEN img[p] ELSE UNDEFINED

\* ------------------------------------------------------- image normalisation
\* typeof img === 'string' ? img : (img?.url || null)
EntryUrl(img) ==
  IF img.type = "string" THEN img.url
  ELSE IF Falsy(Prop(img, "url")) THEN NULL ELSE img.url

\* The entry normalizeImageEntry returns; type "null" when it returns null.
normalizeImageEntry(img, selectedUrl) ==
  IF Falsy(EntryUrl(img))
  THEN [type |-> "null"]
  ELSE [type |-> "object",
        url |-> EntryUrl(img),
        width |-> Coalesce(Prop(img, "width"), NULL),
        height |-> Coalesce(Prop(img, "height"), NULL),
        content_type |-> Coalesce(Prop(img, "content_type"), "image/jpeg"),
        is_selected |-> (~Falsy(selectedUrl) /\ EntryUrl(img) = selectedUrl),
        score |-> Coalesce(Prop(img, "score"), NULL),
        status |-> Coalesce(Prop(img, "status"), "ready")]

\* Faulty variant: the entries normalizeImageEntry rejects are kept.
MapEntriesUnfiltered(items, selectedUrl) ==
  [k \in 1..Len(items) |-> normalizeImageEntry(items[k], selectedUrl)]

\* images.map(img => normalizeImageEntry(img, selectedUrl)).filter(Boolean)
RECURSIVE MapFilterEntries(_, _)
MapFilterEntries(items, selectedUrl) ==
  IF items = <<>> THEN <<>>
  ELSE LET e == normalizeImageEntry(Head(items), selectedUrl)
           rest == MapFilterEntries(Tail(items), selectedUrl)
       IN IF e.type = "null" THEN rest ELSE <<e>> \o rest

normalizeGenerationImages(images, selectedUrl) ==
  IF ~images.isArray THEN <<>>
  ELSE MapFilterEntries(images.items, selectedUrl)

\* ------------------------------------------------------------ store: tables
\* INSERT INTO generations ... VALUES (..., 'pending', ...) with the column
\* defaults of the schema.
createGenerationRow(client, prompt, metadata) ==
  [client_id |-> client,
   campaign_batch_id |-> NoBatch,
   status |-> "pending",
   prompt |-> prompt,
   headline |-> NULL,
   body_copy |-> NULL,
   cta |-> NULL,
   concept |-> NULL,
   avatar |-> NULL,
   asset_ids |-> <<>>,
   generated_images |-> <<>>,
   selected_image_url |-> NULL,
   error |-> NULL,
   metadata |-> metadata]

\* Faulty variant: total_items is left to its column default.
createCampaignBatchRowNoTotal(client, goal, total) ==
  [client_id |-> client, goal |-> goal, total_items |-> 0,
   status |-> "running"]

\* INSERT INTO campaign_batches (client_id, goal, total_items, metadata);
\* status takes the column default.
createCampaignBatchRow(client, goal, total) ==
  [client_id |-> client, goal |-> goal, total_items |-> total,
   status |-> "running"]

\* UPDATE generations SET <supplied columns> WHERE id = $i AND client_id = $j.
\* `fields` is a function whose domain is the set of supplied keys.
FieldValue(row, fields, key) ==
  IF key \in DOMAIN fields
  THEN IF key = "generated_images"
       THEN normalizeGenerationImages(
              fields[key],
              IF "selected_image_url" \in DOMAIN fields
              THEN Coalesce(fields["selected_image_url"], NULL) ELSE NULL)
       ELSE fields[key]
  ELSE row[key]

\* The row the UPDATE leaves in place of `row`.
UpdatedRow(row, fields) ==
  [client_id |-> row.client_id,
   campaign_batch_id |-> row.campaign_batch_id,
   status |-> FieldValue(row, fields, "status"),
   prompt |-> FieldValue(row, fields, "prompt"),
   headline |-> FieldValue(row, fields, "headline"),
   body_copy |-> FieldValue(row, fields, "body_copy"),
   cta |-> FieldValue(row, fields, "cta"),
   concept |-> FieldValue(row, fields, "concept"),
   avatar |-> FieldValue(row, fields, "avatar"),
   asset_ids |-> FieldValue(row, fields, "asset_ids"),
   generated_images |-> FieldValue(row, fields, "generated_images"),
   selected_image_url |-> FieldValue(row, fields, "selected_image_url"),
   error |-> FieldValue(row, fields, "error"),
   metadata |-> FieldValue(row, fields, "metadata")]

\* WHERE id = $i AND client_id = $j
RowMatches(gs, id, clientId) == id \in DOMAIN gs /\ gs[id].client_id = clientId

\* Faulty variant: the UPDATE selects the row by id alone.
updateGenerationAnyClient(gs, id, clientId, fields) ==
  IF DOMAIN fields \cap UPDATABLE = {} THEN gs
  ELSE [g \in DOMAIN gs |->
          IF g = id THEN UpdatedRow(gs[g], fields) ELSE gs[g]]

updateGeneration(gs, id, clientId, fields) ==
  IF DOMAIN fields \cap UPDATABLE = {} THEN gs
  ELSE [g \in DOMAIN gs |->
          IF g = id /\ gs[g].client_id = clientId
          THEN UpdatedRow(gs[g], fields)
          ELSE gs[g]]

\* What updateGeneration returns: rows[0] || null, the row as getGenerationById
\* reads it when nothing is to be set.  found is FALSE for null.
updateGenerationResult(gs, id, clientId, fields) ==
  IF RowMatches(gs, id, clientId)
  THEN [found |-> TRUE, row |-> updateGeneration(gs, id, clientId, fields)[id]]
  ELSE [found |-> FALSE, row |-> NULL]

\* ------------------------------------------------- batch status derivation
\* SELECT COUNT(*) ... FROM generations
\*  WHERE campaign_batch_id = $1 AND client_id = $2
ChildRows(gs, bId, clientId) ==
  {g \in DOMAIN gs : gs[g].campaign_batch_id = bId /\ gs[g].client_id = clientId}

CountStatus(gs, bId, clientId, statuses) ==
  Cardinality({g \in ChildRows(gs, bId, clientId) : gs[g].status \in statuses})

\* Faulty variant: any failed child makes the batch failed.
DeriveStatusAnyFailed(total, failed_count, in_flight) ==
  IF in_flight > 0 THEN "running"
  ELSE IF failed_count > 0 THEN "failed"
  ELSE "done"

DeriveStatus(total, failed_count, in_flight) ==
  IF in_flight > 0 THEN "running"
  ELSE IF failed_count = total THEN "failed"
  ELSE "done"

\* The status refreshBatchStatus computes from the rows its SELECT reads.
ComputedStatus(gs, bId, clientId) ==
  DeriveStatus(Cardinality(ChildRows(gs, bId, clientId)),
               CountStatus(gs, bId, clientId, {"failed"}),
               CountStatus(gs, bId, clientId, {"pending", "processing"}))

\* Faulty variant: the UPDATE is not scoped to the workspace.
setBatchStatusAnyClient(bs, bId, clientId, status) ==
  [b \in DOMAIN bs |->
     IF b = bId THEN [bs[b] EXCEPT !.status = status] ELSE bs[b]]

\* UPDATE campaign_batches SET status = $1 WHERE id = $2 AND client_id = $3
setBatchStatus(bs, bId, clientId, status) ==
  [b \in DOMAIN bs |->
     IF b = bId /\ bs[b].client_id = clientId
     THEN [bs[b] EXCEPT !.status = status]
     ELSE bs[b]]

\* meta.<key> ?? null, with meta = g.metadata || {}
MetaValue(meta, key) ==
  IF key \in DOMAIN meta THEN Coalesce(meta[key], NULL) ELSE NULL

\* The null of a position (positions are numbers, the other nulls strings).
NoIndex == 0

\* meta.batch_item_index ?? null
MetaIndex(meta) ==
  IF "batch_item_index" \in DOMAIN meta THEN meta.batch_item_index
  ELSE NoIndex

\* Faulty variant: no fallback to the first generated image.
ItemImageUrlNoFallback(row) ==
  IF ~Falsy(row.selected_image_url) THEN row.selected_image_url ELSE NULL

\* g.selected_image_url || firstImage?.url || null
ItemImageUrl(row) ==
  IF ~Falsy(row.selected_image_url) THEN row.selected_image_url
  ELSE IF /\ Len(row.generated_images) > 0
          /\ ~Falsy(row.generated_images[1].url)
       THEN row.generated_images[1].url
       ELSE NULL

\* One element of batch.items, built from generation row g.
BatchItem(gs, g) ==
  [generation_id |-> g,
   index |-> MetaIndex(gs[g].metadata),
   persona |-> MetaValue(gs[g].metadata, "persona"),
   angle |-> MetaValue(gs[g].metadata, "angle"),
   status |-> gs[g].status,
   prompt |-> gs[g].prompt,
   headline |-> gs[g].headline,
   concept |-> gs[g].concept,
   image_url |-> ItemImageUrl(gs[g]),
   error |-> gs[g].error]

\* ORDER BY id ASC
RECURSIVE OrderById(_)
OrderById(ids) ==
  IF ids = {} THEN <<>>
  ELSE LET m == CHOOSE x \in ids : \A y \in ids : x <= y
       IN <<m>> \o OrderById(ids \ {m})

\* getCampaignBatch: null (found = FALSE) when no batch row has this id in
\* this workspace, otherwise the batch row and one item per child generation.
getCampaignBatch(gs, bs, bId, clientId) ==
  IF ~(bId \in DOMAIN bs /\ bs[bId].client_id = clientId)
  THEN [found |-> FALSE, batch |-> NULL, items |-> <<>>]
  ELSE LET genRows == OrderById(ChildRows(gs, bId, clientId))
       IN [found |-> TRUE, batch |-> bs[bId],
           items |-> [k \in 1..Len(genRows) |-> BatchItem(gs, genRows[k])]]

\* ------------------------------------------------ external image generator
\* What one call of generateImages settles with.  `images` is the list after
\* the client's own normalizeImages (entries without url already dropped).
KeyMissing ==
  [ok |-> FALSE, code |-> "FAL_KEY_MISSING",
   message |-> "FAL_KEY is not configured", images |-> <<>>]

\* The timeout of the race fires first.
TimeoutError ==
  [ok |-> FALSE, code |-> "FAL_TIMEOUT",
   message |-> "FAL request timed out", images |-> <<>>]

\* What the provider request rejects with: err.code, err.body.detail and
\* err.message.  One error of the provider's API, one error object that
\* carries a code of its own (such as a network error) and no message.
UnderlyingErrors ==
  { [code |-> UNDEFINED, detail |-> "provider detail",
     message |-> "Unprocessable Entity"],
    [code |-> "PROVIDER_CODE", detail |-> UNDEFINED, message |-> ""] }

\* catch (err) { if (err.code) throw err; ... code: 'FAL_ERROR' }
RequestFailure(err) ==
  IF ~Falsy(err.code)
  THEN [ok |-> FALSE, code |-> err.code, message |-> err.message,
        images |-> <<>>]
  ELSE [ok |-> FALSE, code |-> "FAL_ERROR",
        message |-> IF ~Falsy(err.detail) THEN err.detail
                    ELSE IF ~Falsy(err.message) THEN err.message
                    ELSE "Unknown FAL error",
        images |-> <<>>]

ProviderFailures ==
  {TimeoutError} \cup {RequestFailure(err) : err \in UnderlyingErrors}

\* The race does not cancel the provider request: after the timeout has
\* fired the request is still running.
StillRunning(o) == IF o.code = "FAL_TIMEOUT" THEN 1 ELSE 0

\* No single-generation request, no plan request.
NoSingle == [pc |-> "none"]
NoPlan == [pc |-> "none"]

\* normalizeImages of the generator client: every entry becomes
\* { url, width, height, content_type } and entries without url are dropped.
RECURSIVE normalizeImages(_)
normalizeImages(raw) ==
  IF raw = <<>> THEN <<>>
  ELSE LET img == Head(raw)
           url == IF img.type = "string" THEN img.url
                  ELSE IF Falsy(img.url) THEN NULL ELSE img.url
           out == ImageValue("object", url,
                    IF img.type = "string" \/ Falsy(img.width)
                    THEN NULL ELSE img.width,
                    IF img.type = "string" \/ Falsy(img.content_type)
                    THEN "image/jpeg" ELSE img.content_type,
                    UNDEFINED, UNDEFINED)
       IN IF Falsy(url) THEN normalizeImages(Tail(raw))
          ELSE <<out>> \o normalizeImages(Tail(raw))

\* data.images of a provider response: one image, or one entry without url.
ProviderRaw == { <<ImageObject("u1")>>, <<ImageObject(UNDEFINED)>> }

ProviderSuccess(raw) ==
  [ok |-> TRUE, code |-> "", message |-> "", images |-> normalizeImages(raw)]

\* `failure` is the way the provider request fails in this behaviour, when it
\* fails, `raw` the image list of its response when it succeeds; without
\* credentials no request is made.
generateImages(keySet, failure, raw) ==
  IF ~keySet THEN {KeyMissing} ELSE {ProviderSuccess(raw), failure}

\* A rejected store statement, as the handler's catch sees it.
StoreError == "store statement failed"

\* ------------------------------------------------------------- the request
\* items[i] is the `index` the client put on item i, 0 when it put none.
\* Faulty variant: the list position, whatever the item carries.
ItemIndexPosition(items, i) == i

\* item.index ?? (i + 1)
ItemIndex(items, i) == IF items[i] # 0 THEN items[i] ELSE i

PlainItems(n) == [i \in 1..n |-> 0]

\* metadata stored with the generation of job i at creation.
CreatedMetadata(i) ==
  [campaign_batch_id |-> batchId,
   batch_item_index |-> ItemIndex(req.items, i),
   persona |-> NULL,
   angle |-> NULL,
   goal |-> req.goal,
   strategy_rationale |-> NULL]

\* Faulty variant: the provenance keys replace the stored metadata.
DoneMetadataOnlyProvenance(i) ==
  [fal_request_id |-> "r1", fal_seed |-> "s1", fal_model |-> "fal-ai/flux/dev"]

\* { ...(generation.metadata || {}), fal_request_id, fal_seed, fal_model }
DoneMetadata(i) ==
  [campaign_batch_id |-> CreatedMetadata(i).campaign_batch_id,
   batch_item_index |-> CreatedMetadata(i).batch_item_index,
   persona |-> CreatedMetadata(i).persona,
   angle |-> CreatedMetadata(i).angle,
   goal |-> CreatedMetadata(i).goal,
   strategy_rationale |-> CreatedMetadata(i).strategy_rationale,
   fal_request_id |-> "r1", fal_seed |-> "s1", fal_model |-> "fal-ai/flux/dev"]

NoMetadata == [source |-> "single"]

\* Faulty variant: the cap is tested with >= instead of >.
RejectedAtCap(r) ==
  \/ ~r.isArray
  \/ Len(r.items) = 0
  \/ Len(r.items) >= MAX_BATCH_ITEMS

\* rawItems is rejected: not an array, empty, or over the cap.
Rejected(r) ==
  \/ ~r.isArray
  \/ Len(r.items) = 0
  \/ Len(r.items) > MAX_BATCH_ITEMS

NoResponse == [code |-> 0, batch_id |-> NoBatch, items |-> <<>>]

\* executeItem of a job that no worker has claimed yet.
\* outcome: "ok" or the code of the error generateImages threw; msg: the
\* message the catch block holds; st: the status refreshBatchStatus derived;
\* thrown: the catch block itself threw; refreshed: the number of
\* refreshBatchStatus calls the finally block has made.
Unclaimed ==
  [pc |-> "unclaimed", outcome |-> NULL, msg |-> NULL, images |-> <<>>,
   st |-> NULL, thrown |-> FALSE, refreshed |-> 0]

\* No store function has been called directly; n counts the direct calls.
NoCall == [op |-> "none", n |-> 0]

\* Rows that exist before the request: a finished batch of the other tenant.
InitGens ==
  (1 :> [client_id |-> 2, campaign_batch_id |-> 1, status |-> "done",
         prompt |-> "p0", headline |-> NULL, body_copy |-> NULL,
         cta |-> NULL, concept |-> NULL, avatar |-> NULL, asset_ids |-> <<>>,
         generated_images |->
           normalizeGenerationImages(JsArray(<<ImageObject("u0")>>), "u0"),
         selected_image_url |-> "u0", error |-> NULL,
         metadata |-> NoMetadata])

InitBatches ==
  (1 :> [client_id |-> 2, goal |-> NULL, total_items |-> 1, status |-> "done"])

\* The state before the request is handled; itemLists are the bodies'
\* item lists, each item given by its `index` property (0: it has none).
InitFor(itemLists, clients) ==
  /\ req \in {[client |-> c, isArray |-> a, items |-> l, goal |-> g] :
                c \in clients, a \in BOOLEAN, l \in itemLists, g \in Goals}
  /\ (~req.isArray => Len(req.items) = 0)
  /\ gens = InitGens
  /\ batches = InitBatches
  /\ nextGenId = 2
  /\ nextBatchId = 2
  /\ spc = "start"
  /\ batchId = NoBatch
  /\ ins = [i \in Jobs |-> 0]
  /\ stamp = [i \in Jobs |-> "pending"]
  /\ response = NoResponse
  /\ next = 0
  /\ exec = [i \in Jobs |-> Unclaimed]
  /\ pool = [exited |-> 0, dead |-> 0]
  /\ falKey \in BOOLEAN
  /\ falFailure \in (IF falKey THEN ProviderFailures ELSE {KeyMissing})
  /\ falRaw \in (IF falKey THEN ProviderRaw ELSE {<<>>})
  /\ faults = 0
  /\ overtakes = 0
  /\ calls = [i \in Jobs |-> 0]
  /\ claimed = [i \in Jobs |-> 0]
  /\ call = NoCall
  /\ abandoned = 0
  /\ single = NoSingle
  /\ clientIds = Clients
  /\ del = <<>>
  /\ plan = NoPlan

InitWith(lengths, clients) == InitFor({PlainItems(n) : n \in lengths}, clients)

Init == InitWith(0..MaxJobs, {1})

\* ------------------------------------------- POST /api/campaign/generate
ValidationError == [code |-> 400, batch_id |-> NoBatch, items |-> <<>>]
ServerError == [code |-> 500, batch_id |-> NoBatch, items |-> <<>>]

\* The body of res.json: one entry per generation, in list order.
ResponseItems(items, ids) ==
  [i \in 1..Len(items) |->
     [index |-> ItemIndex(items, i), generation_id |-> ids[i],
      status |-> "pending"]]

\* The synchronous head of the handler: the two checks on rawItems, then the
\* INSERT of the batch row is issued.
SValidate ==
  /\ spc = "start"
  /\ IF Rejected(req)
     THEN /\ spc' = "rejected"
          /\ response' = ValidationError
     ELSE /\ spc' = "createBatch"
          /\ UNCHANGED response
  /\ UNCHANGED <<env, side, abandoned, call, store, poolVars, batchId, ins, stamp, faults, overtakes, calls>>

\* createCampaignBatch's INSERT executes; on its result the handler issues one
\* createGeneration INSERT per item.
SCreateBatch ==
  /\ spc = "createBatch"
  /\ batches' = batches @@
       (nextBatchId :> createCampaignBatchRow(req.client, req.goal, N))
  /\ nextBatchId' = nextBatchId + 1
  /\ batchId' = nextBatchId
  /\ spc' = "creating"
  /\ UNCHANGED <<env, side, abandoned, call, poolVars, gens, nextGenId, ins, stamp, response, faults, overtakes, calls>>

\* createCampaignBatch rejects: the handler's catch passes the error on.
SCreateBatchFail ==
  /\ spc = "createBatch"
  /\ faults < MaxStoreFaults
  /\ faults' = faults + 1
  /\ spc' = "error"
  /\ response' = ServerError
  /\ UNCHANGED <<env, side, abandoned, call, store, poolVars, batchId, ins, stamp, overtakes, calls>>

\* The INSERT of job i's generation executes (the INSERTs of one request are
\* issued together and execute in any order); its .then issues the stamp.
\* Lists longer than MaxJobs are followed up to the batch row only.
SInsert(i) ==
  /\ batchId # NoBatch
  /\ N <= MaxJobs
  /\ ins[i] = 0
  /\ IF \E j \in 1..(i - 1) : ins[j] = 0
     THEN overtakes < MaxOvertakes /\ overtakes' = overtakes + 1
     ELSE overtakes' = overtakes
  /\ gens' = gens @@
       (nextGenId :> createGenerationRow(req.client, "", CreatedMetadata(i)))
  /\ ins' = [ins EXCEPT ![i] = nextGenId]
  /\ nextGenId' = nextGenId + 1
  /\ UNCHANGED <<env, side, abandoned, call, poolVars, batches, nextBatchId, spc, batchId, stamp, response, faults, calls>>

\* The INSERT of job i rejects: Promise.all rejects, the handler's catch
\* answers through next(err) unless it has done so already.
SInsertFail(i) ==
  /\ batchId # NoBatch
  /\ N <= MaxJobs
  /\ ins[i] = 0
  /\ faults < MaxStoreFaults
  /\ faults' = faults + 1
  /\ ins' = [ins EXCEPT ![i] = -1]
  /\ IF spc = "creating"
     THEN spc' = "error" /\ response' = ServerError
     ELSE UNCHANGED <<spc, response>>
  /\ UNCHANGED <<env, side, abandoned, call, store, poolVars, batchId, stamp, overtakes, calls>>

\* UPDATE generations SET campaign_batch_id = $1 WHERE id = $2
SStamp(i) ==
  /\ ins[i] > 0
  /\ stamp[i] = "pending"
  /\ gens' = [gens EXCEPT ![ins[i]].campaign_batch_id = batchId]
  /\ stamp' = [stamp EXCEPT ![i] = "applied"]
  /\ UNCHANGED <<env, side, abandoned, call, poolVars, batches, nextGenId, nextBatchId, spc, batchId, ins, response, faults, overtakes, calls>>

SStampFail(i) ==
  /\ ins[i] > 0
  /\ stamp[i] = "pending"
  /\ faults < MaxStoreFaults
  /\ faults' = faults + 1
  /\ stamp' = [stamp EXCEPT ![i] = "failed"]
  /\ IF spc = "creating"
     THEN spc' = "error" /\ response' = ServerError
     ELSE UNCHANGED <<spc, response>>
  /\ UNCHANGED <<env, side, abandoned, call, store, poolVars, batchId, ins, overtakes, calls>>

\* -------------------------------------------------------- withConcurrency
\* Faulty variant: one worker per item, without the concurrency ceiling.
PoolSizeUnbounded(n) == n

PoolSize(n) == Min(BATCH_CONCURRENCY, n)

\* Faulty variant: the shared counter is read but not advanced.
NextCounterStuck(nx) == nx

\* const i = next++
NextCounter(nx) == nx + 1

\* One evaluation of a worker's loop, run synchronously up to the next await:
\*   while (next < items.length) { const i = next++; ... await fn(items[i], i) }
\* Either the worker claims index `next` (job next + 1) and executeItem issues
\* the `processing` update, or the worker returns.
WorkerLoop(st) ==
  IF st.next < N
  THEN [exec |-> [st.exec EXCEPT ![st.next + 1] = [Unclaimed EXCEPT !.pc = "procW"]],
        next |-> NextCounter(st.next),
        claimed |-> [st.claimed EXCEPT ![st.next + 1] = @ + 1],
        pool |-> st.pool]
  ELSE [exec |-> st.exec, next |-> st.next, claimed |-> st.claimed,
        pool |-> [st.pool EXCEPT !.exited = @ + 1]]

\* Array.from({ length: k }, worker): k workers are started one after another.
RECURSIVE StartWorkers(_, _)
StartWorkers(k, st) ==
  IF k = 0 THEN st ELSE StartWorkers(k - 1, WorkerLoop(st))

PoolState == [exec |-> exec, next |-> next, claimed |-> claimed, pool |-> pool]

SetPool(st) ==
  /\ exec' = st.exec
  /\ next' = st.next
  /\ claimed' = st.claimed
  /\ pool' = st.pool

\* Faulty variant: the handler awaits withConcurrency before it answers.
SRespondAfterJobs ==
  \/ /\ spc = "creating"
     /\ \A i \in Jobs : stamp[i] = "applied"
     /\ spc' = "awaiting"
     /\ SetPool(StartWorkers(PoolSize(N), PoolState))
     /\ UNCHANGED <<env, side, abandoned, call, store, batchId, ins, stamp, response, faults,
                    overtakes, calls>>
  \/ /\ spc = "awaiting"
     /\ \A i \in Jobs : exec[i].pc = "settled"
     /\ spc' = "responded"
     /\ response' = [code |-> 200, batch_id |-> batchId,
                     items |-> ResponseItems(req.items, ins)]
     /\ UNCHANGED <<env, side, abandoned, call, store, poolVars, batchId, ins, stamp, faults,
                    overtakes, calls>>

\* Promise.all has resolved: res.json(...), then withConcurrency(...) in the
\* same synchronous block.
SRespond ==
  /\ spc = "creating"
  /\ \A i \in Jobs : stamp[i] = "applied"
  /\ response' = [code |-> 200, batch_id |-> batchId,
                  items |-> ResponseItems(req.items, ins)]
  /\ spc' = "responded"
  /\ SetPool(StartWorkers(PoolSize(N), PoolState))
  /\ UNCHANGED <<env, side, abandoned, call, store, batchId, ins, stamp, faults, overtakes, calls>>

\* ------------------------------------------------------------ executeItem
\* Faulty variant: the message is stored as it is, without the fallback text.
ErrorMsgRaw(message) == message

\* err?.message || 'Generation failed'
ErrorMsg(message) == IF message = "" THEN "Generation failed" ELSE message

ProcessingFields == [status |-> "processing"]

\* Faulty variant: no image is marked as the selected one.
DoneFieldsNoSelection(job, images) ==
  [status |-> "done",
   generated_images |-> JsArray(images),
   selected_image_url |-> NULL,
   metadata |-> DoneMetadata(job)]

DoneFields(job, images) ==
  [status |-> "done",
   generated_images |-> JsArray(images),
   selected_image_url |-> IF images = <<>> \/ Falsy(images[1].url)
                          THEN NULL ELSE images[1].url,
   metadata |-> DoneMetadata(job)]

FailedFields(msg) == [status |-> "failed", error |-> msg]

\* The `processing` update executes; executeItem then calls generateImages.
MarkProcessing(i) ==
  /\ exec[i].pc = "procW"
  /\ gens' = updateGeneration(gens, ins[i], req.client, ProcessingFields)
  /\ exec' = [exec EXCEPT ![i].pc = "call"]
  /\ calls' = [calls EXCEPT ![i] = @ + 1]
  /\ UNCHANGED <<env, side, abandoned, call, handler, batches, nextGenId, nextBatchId, next, pool, faults, overtakes, claimed>>

\* The `processing` update rejects: the catch issues the `failed` update.
MarkProcessingFail(i) ==
  /\ exec[i].pc = "procW"
  /\ faults < MaxStoreFaults
  /\ faults' = faults + 1
  /\ exec' = [exec EXCEPT ![i].pc = "failW", ![i].msg = ErrorMsg(StoreError)]
  /\ UNCHANGED <<env, side, abandoned, call, store, handler, next, pool, overtakes, calls, claimed>>

\* generateImages settles: on success the `done` update is issued, on any
\* failure the catch issues the `failed` update with the failure's message.
Generated(i) ==
  /\ exec[i].pc = "call"
  /\ \E o \in generateImages(falKey, falFailure, falRaw) :
       /\ exec' = [exec EXCEPT
                     ![i].pc = IF o.ok THEN "doneW" ELSE "failW",
                     ![i].outcome = IF o.ok THEN "ok" ELSE o.code,
                     ![i].images = o.images,
                     ![i].msg = IF o.ok THEN NULL ELSE ErrorMsg(o.message)]
       /\ abandoned' = abandoned + StillRunning(o)
  /\ UNCHANGED <<env, side, call, store, handler, next, pool, faults, overtakes, calls, claimed>>

\* The `done` update executes; the finally block issues the recomputation.
MarkDone(i) ==
  /\ exec[i].pc = "doneW"
  /\ gens' = updateGeneration(gens, ins[i], req.client,
                              DoneFields(i, exec[i].images))
  /\ exec' = [exec EXCEPT ![i].pc = "refR"]
  /\ UNCHANGED <<env, side, abandoned, call, handler, batches, nextGenId, nextBatchId, next, pool, faults, overtakes, calls, claimed>>

\* The `done` update rejects: the catch issues the `failed` update.
MarkDoneFail(i) ==
  /\ exec[i].pc = "doneW"
  /\ faults < MaxStoreFaults
  /\ faults' = faults + 1
  /\ exec' = [exec EXCEPT ![i].pc = "failW", ![i].msg = ErrorMsg(StoreError)]
  /\ UNCHANGED <<env, side, abandoned, call, store, handler, next, pool, overtakes, calls, claimed>>

\* The `failed` update executes; the finally block issues the recomputation.
MarkFailed(i) ==
  /\ exec[i].pc = "failW"
  /\ gens' = updateGeneration(gens, ins[i], req.client,
                              FailedFields(exec[i].msg))
  /\ exec' = [exec EXCEPT ![i].pc = "refR"]
  /\ UNCHANGED <<env, side, abandoned, call, handler, batches, nextGenId, nextBatchId, next, pool, faults, overtakes, calls, claimed>>

\* The `failed` update rejects inside the catch: the exception leaves
\* executeItem once the finally block has run.
MarkFailedFail(i) ==
  /\ exec[i].pc = "failW"
  /\ faults < MaxStoreFaults
  /\ faults' = faults + 1
  /\ exec' = [exec EXCEPT ![i].pc = "refR", ![i].thrown = TRUE]
  /\ UNCHANGED <<env, side, abandoned, call, store, handler, next, pool, overtakes, calls, claimed>>

\* ----------------------------------------------------- refreshBatchStatus
\* The SELECT of the counts executes; the status is derived and the UPDATE of
\* the batch row is issued.
RefreshRead(i) ==
  /\ exec[i].pc = "refR"
  /\ exec' = [exec EXCEPT ![i].pc = "refW",
                          ![i].refreshed = @ + 1,
                          ![i].st = ComputedStatus(gens, batchId, req.client)]
  /\ UNCHANGED <<env, side, abandoned, call, store, handler, next, pool, faults, overtakes, calls, claimed>>

\* executeItem of job i settles.  If it threw, the worker's promise rejects;
\* otherwise the worker evaluates its loop again.  (A recomputation whose
\* SELECT rejected is counted here.)
Settle(i) ==
  LET st == [PoolState EXCEPT
               !.exec[i] = [exec[i] EXCEPT
                              !.pc = "settled",
                              !.images = <<>>, !.st = NULL,
                              !.refreshed = IF exec[i].pc = "refR"
                                            THEN @ + 1 ELSE @]]
  IN IF exec[i].thrown
     THEN SetPool([st EXCEPT !.pool.dead = @ + 1])
     ELSE SetPool(WorkerLoop(st))

\* Faulty variant: the rejection is not swallowed and leaves executeItem.
RefreshReadFailRethrown(i) ==
  /\ exec[i].pc = "refR"
  /\ faults < MaxStoreFaults
  /\ faults' = faults + 1
  /\ SetPool([PoolState EXCEPT
                !.exec[i] = [exec[i] EXCEPT !.pc = "settled",
                                            !.refreshed = @ + 1],
                !.pool.dead = @ + 1])
  /\ UNCHANGED <<env, side, abandoned, call, store, handler, overtakes, calls>>

\* The SELECT rejects: .catch(() => {}) swallows it.
RefreshReadFail(i) ==
  /\ exec[i].pc = "refR"
  /\ faults < MaxStoreFaults
  /\ faults' = faults + 1
  /\ Settle(i)
  /\ UNCHANGED <<env, side, abandoned, call, store, handler, overtakes, calls>>

\* The UPDATE of the batch row executes and refreshBatchStatus returns.
RefreshWrite(i) ==
  /\ exec[i].pc = "refW"
  /\ batches' = setBatchStatus(batches, batchId, req.client, exec[i].st)
  /\ Settle(i)
  /\ UNCHANGED <<env, side, abandoned, call, handler, gens, nextGenId, nextBatchId, faults, overtakes, calls>>

\* The UPDATE rejects: .catch(() => {}) swallows it.
RefreshWriteFail(i) ==
  /\ exec[i].pc = "refW"
  /\ faults < MaxStoreFaults
  /\ faults' = faults + 1
  /\ Settle(i)
  /\ UNCHANGED <<env, side, abandoned, call, store, handler, overtakes, calls>>

\* ----------------------------------------------------------- specification
Submit ==
  \/ SValidate
  \/ SCreateBatch
  \/ SCreateBatchFail
  \/ \E i \in Jobs : SInsert(i)
  \/ \E i \in Jobs : SInsertFail(i)
  \/ \E i \in Jobs : SStamp(i)
  \/ \E i \in Jobs : SStampFail(i)
  \/ SRespond

executeItem(i) ==
  \/ MarkProcessing(i)
  \/ MarkProcessingFail(i)
  \/ Generated(i)
  \/ MarkDone(i)
  \/ MarkDoneFail(i)
  \/ MarkFailed(i)
  \/ MarkFailedFail(i)
  \/ RefreshRead(i)
  \/ RefreshReadFail(i)
  \/ RefreshWrite(i)
  \/ RefreshWriteFail(i)

Next == Submit \/ \E i \in Jobs : executeItem(i)

Spec == Init /\ [][Next]_vars

\* The same handler offered every kind of job list around the size limits.
ValidationLengths == {0, 1} \cup ((MAX_BATCH_ITEMS - 1)..MaxLen)

InitValidation == InitWith(ValidationLengths, Clients)

SpecValidation == InitValidation /\ [][Next]_vars

\* The store never fails and every issued statement, and every provider
\* request (which returns or is cut off by the client's timeout), completes.
SubmitReliable ==
  \/ SValidate
  \/ SCreateBatch
  \/ \E i \in Jobs : SInsert(i)
  \/ \E i \in Jobs : SStamp(i)
  \/ SRespond

executeItemReliable(i) ==
  \/ MarkProcessing(i)
  \/ Generated(i)
  \/ MarkDone(i)
  \/ MarkFailed(i)
  \/ RefreshRead(i)
  \/ RefreshWrite(i)

NextReliable == SubmitReliable \/ \E i \in Jobs : executeItemReliable(i)

InitFair == InitWith(0..MaxFairJobs, {1})

FairSpec ==
  /\ InitFair
  /\ [][NextReliable]_vars
  /\ WF_vars(SubmitReliable)
  /\ \A i \in 1..MaxFairJobs : WF_vars(i \in Jobs /\ executeItemReliable(i))

\* ------------------------------------------------- the provider's requests
\* A request the race has left behind completes at the provider; nobody
\* awaits its result.  No handler observes this step, so it is a step of
\* this specification only.
ProviderCompletes ==
  /\ abandoned > 0
  /\ abandoned' = abandoned - 1
  /\ UNCHANGED <<env, side, call, store, handler, poolVars, faults, overtakes,
                 calls>>

NextProvider == NextReliable \/ ProviderCompletes

\* A submit of MaxJobs items with the credentials set.
InitProvider == InitWith({MaxJobs}, {1}) /\ req.isArray /\ falKey

SpecProvider == InitProvider /\ [][NextProvider]_vars

\* ------------------------------------------- items that carry their own index
\* Submits of up to MaxIndexedJobs items, each with an `index` property in
\* 1..MaxIndex or without one.
IndexedItems ==
  UNION {[1..n -> 0..MaxIndex] : n \in 0..MaxIndexedJobs}

InitIndexed == InitFor(IndexedItems, {1})

SpecIndexed == InitIndexed /\ [][Next]_vars

\* ------------------------------------------ the store functions on their own
\* updateGeneration, refreshBatchStatus and normalizeGenerationImages are
\* exported functions; here they are called directly, one call after another,
\* with arguments of every shape, on a store that holds rows of two workspaces.
StoreGens ==
  InitGens @@
  (2 :> [createGenerationRow(1, "p2", NoMetadata) EXCEPT
           !.campaign_batch_id = 2]) @@
  (4 :> [createGenerationRow(1, "p4",
           [campaign_batch_id |-> 2, batch_item_index |-> 2,
            persona |-> "founders", angle |-> "speed", goal |-> NULL,
            strategy_rationale |-> NULL]) EXCEPT
           !.campaign_batch_id = 2,
           !.status = "done",
           !.generated_images =
              normalizeGenerationImages(JsArray(<<ImageObject("u4")>>), "u4"),
           !.selected_image_url = "u4"])

\* Batch 3 has no child generation.
StoreBatches ==
  InitBatches @@
  (2 :> createCampaignBatchRow(1, NULL, 2)) @@
  (3 :> createCampaignBatchRow(1, NULL, 0))

\* The ids offered to the calls; generation 3 is no row.
CallGenIds == 1..4
CallBatchIds == 1..3

FullImageObject ==
  ImageValue("object", "u2", "640", "image/png", TRUE, "archived")

ImageEntries ==
  { ImageString("u1"), ImageString(""), ImageObject("u1"), ImageObject(""),
    ImageObject(NULL), ImageObject(UNDEFINED), FullImageObject, ImageOther }

ImageLists ==
  {NotArray, JsArray(<<>>)}
    \cup {JsArray(<<a>>) : a \in ImageEntries}
    \cup {JsArray(<<a, b>>) : a \in ImageEntries, b \in ImageEntries}

SelectedUrls == {NULL, "", "u1", "u2"}

\* An absent key.
NoField == [k \in {} |-> NULL]

\* The `fields` objects offered to updateGeneration: every combination of
\* supplied and absent keys, one of them a key that is not updatable.
UpdateFields ==
  { s @@ g @@ u @@ e @@ p @@ x :
      s \in {NoField, "status" :> "failed"},
      g \in {NoField} \cup
            { "generated_images" :> l :
                l \in {NotArray, JsArray(<<ImageObject("u1")>>),
                       JsArray(<<ImageString("u2"), ImageOther>>)} },
      u \in {NoField} \cup {"selected_image_url" :> v : v \in {NULL, "u1"}},
      e \in {NoField, "error" :> "e1"},
      p \in {NoField, "prompt" :> "p9"},
      x \in {NoField, "client_id" :> 7} }

InitStore ==
  /\ req = [client |-> 1, isArray |-> TRUE, items |-> <<>>, goal |-> NULL]
  /\ gens = StoreGens
  /\ batches = StoreBatches
  /\ nextGenId = 5
  /\ nextBatchId = 4
  /\ spc = "idle"
  /\ batchId = NoBatch
  /\ ins = <<>>
  /\ stamp = <<>>
  /\ response = NoResponse
  /\ next = 0
  /\ exec = <<>>
  /\ pool = [exited |-> 0, dead |-> 0]
  /\ falKey = FALSE
  /\ falFailure = KeyMissing
  /\ falRaw = <<>>
  /\ faults = 0
  /\ overtakes = 0
  /\ calls = <<>>
  /\ claimed = <<>>
  /\ call = NoCall
  /\ abandoned = 0
  /\ single = NoSingle
  /\ clientIds = Clients
  /\ del = <<>>
  /\ plan = NoPlan

CallUpdateGeneration ==
  /\ call.n < MaxCalls
  /\ \E id \in CallGenIds, c \in Clients, f \in UpdateFields :
       /\ gens' = updateGeneration(gens, id, c, f)
       /\ call' = [op |-> "updateGeneration", n |-> call.n + 1,
                   id |-> id, client |-> c, fields |-> f,
                   result |-> updateGenerationResult(gens, id, c, f)]
  /\ UNCHANGED <<env, side, abandoned, handler, poolVars, batches, nextGenId, nextBatchId,
                 faults, overtakes, calls>>

\* One call of refreshBatchStatus: the SELECT, the derivation, the UPDATE.
CallRefreshBatchStatus ==
  /\ call.n < MaxCalls
  /\ \E b \in CallBatchIds, c \in Clients :
       /\ batches' = setBatchStatus(batches, b, c, ComputedStatus(gens, b, c))
       /\ call' = [op |-> "refreshBatchStatus", n |-> call.n + 1,
                   id |-> b, client |-> c,
                   total |-> Cardinality(ChildRows(gens, b, c)),
                   result |-> ComputedStatus(gens, b, c)]
  /\ UNCHANGED <<env, side, abandoned, handler, poolVars, gens, nextGenId, nextBatchId,
                 faults, overtakes, calls>>

CallNormalize ==
  /\ call.n < MaxCalls
  /\ \E l \in ImageLists, s \in SelectedUrls :
       call' = [op |-> "normalizeGenerationImages", n |-> call.n + 1,
                images |-> l, selected |-> s,
                result |-> normalizeGenerationImages(l, s)]
  /\ UNCHANGED <<env, side, abandoned, store, handler, poolVars, faults,
                 overtakes, calls>>

\* One call of getCampaignBatch, as GET /generate/:batchId makes it.
CallGetCampaignBatch ==
  /\ call.n < MaxCalls
  /\ \E b \in CallBatchIds \cup {4}, c \in Clients :
       call' = [op |-> "getCampaignBatch", n |-> call.n + 1,
                id |-> b, client |-> c,
                result |-> getCampaignBatch(gens, batches, b, c)]
  /\ UNCHANGED <<env, side, abandoned, store, handler, poolVars, faults,
                 overtakes, calls>>

NextStore ==
  \/ CallUpdateGeneration
  \/ CallRefreshBatchStatus
  \/ CallNormalize
  \/ CallGetCampaignBatch

SpecStore == InitStore /\ [][NextStore]_vars

\* ------------------------------------------- POST /api/generate (one image job)
\* A text is a sequence of pieces (for a prompt: of characters); it is empty
\* when every piece is.  req.body.prompt is absent or a text.
NoPrompt == [given |-> FALSE, chars |-> <<>>]
PromptChars == {" ", "p"}
Prompts ==
  {NoPrompt} \cup
  {[given |-> TRUE, chars |-> s] :
     s \in UNION {[1..n -> PromptChars] : n \in 0..MaxPromptLen}}

\* String.prototype.trim
RECURSIVE TrimStart(_)
TrimStart(s) ==
  IF s # <<>> /\ Head(s) = " " THEN TrimStart(Tail(s)) ELSE s

RECURSIVE TrimEnd(_)
TrimEnd(s) ==
  IF s # <<>> /\ s[Len(s)] = " " THEN TrimEnd(SubSeq(s, 1, Len(s) - 1)) ELSE s

Trim(s) == TrimEnd(TrimStart(s))

\* Faulty variant: the prompt is not trimmed before it is tested.
BlankUntrimmed(prompt) == ~prompt.given \/ prompt.chars = <<>>

\* !prompt || !prompt.trim()
Blank(prompt) ==
  ~prompt.given \/ prompt.chars = <<>> \/ Trim(prompt.chars) = <<>>

\* The request before it is handled: its client, its prompt, the generation
\* the handler created (0: none yet), what generateImages did, the label of
\* the catch block and the status code of the response (0: none yet).
SingleRequest(client, prompt) ==
  [pc |-> "start", client |-> client, prompt |-> prompt, genId |-> 0,
   outcome |-> NULL, images |-> <<>>, label |-> <<>>, code |-> 0]

\* The label the catch block computes from the error it caught.
Label(code, message) ==
  IF code = "FAL_KEY_MISSING"
  THEN <<"Image generation is not configured (FAL_KEY missing)">>
  ELSE IF code = "FAL_TIMEOUT"
  THEN <<"Image generation timed out - please try again">>
  ELSE <<"Image generation failed: ", message>>

\* err.code === 'FAL_KEY_MISSING' ? 503 : 502
FailureStatus(code) == IF code = "FAL_KEY_MISSING" THEN 503 ELSE 502

\* The fields of the `done` update of the route.
SingleDoneFields(images) ==
  [status |-> "done",
   generated_images |-> JsArray(images),
   selected_image_url |-> IF images = <<>> \/ Falsy(images[1].url)
                          THEN NULL ELSE images[1].url,
   metadata |-> [fal_request_id |-> "r1", seed |-> "s1",
                 model |-> "fal-ai/flux/dev", num_images |-> "1",
                 image_size |-> "square_hd", apply_brand_kit |-> FALSE,
                 reference_image_url |-> NULL, product_image_url |-> NULL]]

InitSingle ==
  /\ req = [client |-> 1, isArray |-> TRUE, items |-> <<>>, goal |-> NULL]
  /\ gens = InitGens
  /\ batches = InitBatches
  /\ nextGenId = 2
  /\ nextBatchId = 2
  /\ spc = "idle"
  /\ batchId = NoBatch
  /\ ins = <<>>
  /\ stamp = <<>>
  /\ response = NoResponse
  /\ next = 0
  /\ exec = <<>>
  /\ pool = [exited |-> 0, dead |-> 0]
  /\ falKey \in BOOLEAN
  /\ falFailure \in (IF falKey THEN ProviderFailures ELSE {KeyMissing})
  /\ falRaw \in (IF falKey THEN ProviderRaw ELSE {<<>>})
  /\ faults = 0
  /\ overtakes = 0
  /\ calls = <<>>
  /\ claimed = <<>>
  /\ call = NoCall
  /\ abandoned = 0
  /\ single \in {SingleRequest(c, p) : c \in Clients, p \in Prompts}
  /\ clientIds = Clients
  /\ del = <<>>
  /\ plan = NoPlan

\* What no step of the route changes.
singleRest ==
  <<env, handler, poolVars, overtakes, calls, call, clientIds, del, plan,
    batches, nextBatchId>>

\* The synchronous start of the handler: the 400 for a missing or blank
\* prompt, otherwise the INSERT is issued.
GValidate ==
  /\ single.pc = "start"
  /\ single' = IF Blank(single.prompt)
               THEN [single EXCEPT !.pc = "answered", !.code = 400]
               ELSE [single EXCEPT !.pc = "createW"]
  /\ UNCHANGED <<singleRest, gens, nextGenId, faults, abandoned>>

\* createGeneration executes; the `processing` update is issued.
GCreate ==
  /\ single.pc = "createW"
  /\ gens' = gens @@
       (nextGenId :>
          createGenerationRow(single.client, Trim(single.prompt.chars), NoField))
  /\ nextGenId' = nextGenId + 1
  /\ single' = [single EXCEPT !.pc = "procW", !.genId = nextGenId]
  /\ UNCHANGED <<singleRest, faults, abandoned>>

\* createGeneration rejects: `generation` is undefined in the catch block,
\* which hands the error to the global handler.
GCreateFail ==
  /\ single.pc = "createW"
  /\ faults < MaxSingleFaults
  /\ faults' = faults + 1
  /\ single' = [single EXCEPT !.pc = "answered", !.code = 500]
  /\ UNCHANGED <<singleRest, gens, nextGenId, abandoned>>

\* The `processing` update executes; generateImages is called.
GProcessing ==
  /\ single.pc = "procW"
  /\ gens' = updateGeneration(gens, single.genId, single.client,
                              ProcessingFields)
  /\ single' = [single EXCEPT !.pc = "call"]
  /\ UNCHANGED <<singleRest, nextGenId, faults, abandoned>>

\* The `processing` update rejects: the catch block issues the `failed`
\* update with the label of an error that has no code.
GProcessingFail ==
  /\ single.pc = "procW"
  /\ faults < MaxSingleFaults
  /\ faults' = faults + 1
  /\ single' = [single EXCEPT !.pc = "failW",
                              !.label = Label(UNDEFINED, StoreError)]
  /\ UNCHANGED <<singleRest, gens, nextGenId, abandoned>>

\* generateImages settles: the `done` update is issued, or the catch block
\* issues the `failed` update.
GGenerated ==
  /\ single.pc = "call"
  /\ \E o \in generateImages(falKey, falFailure, falRaw) :
       /\ single' = [single EXCEPT
                       !.pc = IF o.ok THEN "doneW" ELSE "failW",
                       !.outcome = IF o.ok THEN "ok" ELSE o.code,
                       !.images = o.images,
                       !.label = IF o.ok THEN <<>>
                                 ELSE Label(o.code, o.message)]
       /\ abandoned' = abandoned + StillRunning(o)
  /\ UNCHANGED <<singleRest, gens, nextGenId, faults>>

\* The `done` update executes; the handler answers 201.
GDone ==
  /\ single.pc = "doneW"
  /\ gens' = updateGeneration(gens, single.genId, single.client,
                              SingleDoneFields(single.images))
  /\ single' = [single EXCEPT !.pc = "answered", !.code = 201]
  /\ UNCHANGED <<singleRest, nextGenId, faults, abandoned>>

\* The `done` update rejects: the catch block issues the `failed` update.
GDoneFail ==
  /\ single.pc = "doneW"
  /\ faults < MaxSingleFaults
  /\ faults' = faults + 1
  /\ single' = [single EXCEPT !.pc = "failW",
                              !.label = Label(UNDEFINED, StoreError)]
  /\ UNCHANGED <<singleRest, gens, nextGenId, abandoned>>

\* The `failed` update executes; the handler answers 503 or 502.
GFailed ==
  /\ single.pc = "failW"
  /\ gens' = updateGeneration(gens, single.genId, single.client,
                              FailedFields(single.label))
  /\ single' = [single EXCEPT !.pc = "answered",
                              !.code = FailureStatus(single.outcome)]
  /\ UNCHANGED <<singleRest, nextGenId, faults, abandoned>>

\* The `failed` update rejects: the inner catch swallows the rejection and
\* the error goes to the global handler.
GFailedFail ==
  /\ single.pc = "failW"
  /\ faults < MaxSingleFaults
  /\ faults' = faults + 1
  /\ single' = [single EXCEPT !.pc = "answered", !.code = 500]
  /\ UNCHANGED <<singleRest, gens, nextGenId, abandoned>>

NextSingle ==
  \/ GValidate
  \/ GCreate
  \/ GCreateFail
  \/ GProcessing
  \/ GProcessingFail
  \/ GGenerated
  \/ GDone
  \/ GDoneFail
  \/ GFailed
  \/ GFailedFail

SpecSingle == InitSingle /\ [][NextSingle]_vars

\* --------------------------------------------------- DELETE /api/clients/:id
\* The ids the delete requests name; the last one is no client.
DeleteTargets == Clients \cup {3}

\* A delete request before it is handled: its target, the count its handler
\* read (0: not read yet) and the status code of its response (0: none yet).
DeleteRequest(target) ==
  [pc |-> "start", target |-> target, total |-> 0, code |-> 0]

InitClients ==
  /\ req = [client |-> 1, isArray |-> TRUE, items |-> <<>>, goal |-> NULL]
  /\ gens = StoreGens
  /\ batches = StoreBatches
  /\ nextGenId = 5
  /\ nextBatchId = 4
  /\ spc = "idle"
  /\ batchId = NoBatch
  /\ ins = <<>>
  /\ stamp = <<>>
  /\ response = NoResponse
  /\ next = 0
  /\ exec = <<>>
  /\ pool = [exited |-> 0, dead |-> 0]
  /\ falKey = FALSE
  /\ falFailure = KeyMissing
  /\ falRaw = <<>>
  /\ faults = 0
  /\ overtakes = 0
  /\ calls = <<>>
  /\ claimed = <<>>
  /\ call = NoCall
  /\ abandoned = 0
  /\ single = NoSingle
  /\ clientIds = Clients
  /\ del \in [1..MaxDeletes -> {DeleteRequest(x) : x \in DeleteTargets}]
  /\ plan = NoPlan

\* What no step of the route changes.
deleteRest ==
  <<env, handler, poolVars, faults, overtakes, calls, call, abandoned, single,
    plan, nextGenId, nextBatchId>>

\* getClientById: 404 when the target is no client.
DLookup(r) ==
  /\ del[r].pc = "start"
  /\ del' = IF del[r].target \in clientIds
            THEN [del EXCEPT ![r].pc = "count"]
            ELSE [del EXCEPT ![r].pc = "answered", ![r].code = 404]
  /\ UNCHANGED <<deleteRest, clientIds, gens, batches>>

\* countClients: 409 when at most one client is counted.
DCount(r) ==
  /\ del[r].pc = "count"
  /\ del' = IF Cardinality(clientIds) <= 1
            THEN [del EXCEPT ![r].pc = "answered", ![r].code = 409,
                             ![r].total = Cardinality(clientIds)]
            ELSE [del EXCEPT ![r].pc = "delete",
                             ![r].total = Cardinality(clientIds)]
  /\ UNCHANGED <<deleteRest, clientIds, gens, batches>>

\* deleteClient: DELETE FROM clients WHERE id = $1, with the cascade to the
\* rows that reference the client.
DDelete(r) ==
  /\ del[r].pc = "delete"
  /\ clientIds' = clientIds \ {del[r].target}
  /\ gens' = [g \in {x \in DOMAIN gens : gens[x].client_id # del[r].target}
               |-> gens[g]]
  /\ batches' = [b \in {x \in DOMAIN batches :
                           batches[x].client_id # del[r].target}
                  |-> batches[b]]
  /\ del' = [del EXCEPT ![r].pc = "list"]
  /\ UNCHANGED deleteRest

\* The cookie is advanced, getAllClients is read and the handler answers.
DRespond(r) ==
  /\ del[r].pc = "list"
  /\ del' = [del EXCEPT ![r].pc = "answered", ![r].code = 200]
  /\ UNCHANGED <<deleteRest, clientIds, gens, batches>>

NextClients ==
  \E r \in 1..MaxDeletes : DLookup(r) \/ DCount(r) \/ DDelete(r) \/ DRespond(r)

SpecClients == InitClients /\ [][NextClients]_vars

\* ------------------------------------------------------------- POST /plan
\* parseInt(req.body.ads_per_combo, 10): NaN or an integer.
NotANumber == [isNaN |-> TRUE, n |-> 0]
ParsedAds ==
  {NotANumber} \cup {[isNaN |-> FALSE, n |-> k] : k \in -1..MaxAdsInput}

Larger(a, b) == IF a >= b THEN a ELSE b

\* Math.min(3, Math.max(1, parseInt(...) || 1))
adsPerCombo(parsed) ==
  Min(3, Larger(1, IF parsed.isNaN \/ parsed.n = 0 THEN 1 ELSE parsed.n))

\* The loops over personas and angles, from persona p and angle a on, with
\* the combos pushed so far; `break outer` at MAX_COMBOS.
RECURSIVE PushCombos(_, _, _, _, _)
PushCombos(p, a, nPersonas, nAngles, acc) ==
  IF p > nPersonas THEN acc
  ELSE IF a > nAngles THEN PushCombos(p + 1, 1, nPersonas, nAngles, acc)
  ELSE LET pushed ==
             Append(acc, [index |-> Len(acc), persona |-> p, angle |-> a])
       IN IF Len(pushed) >= MAX_COMBOS THEN pushed
          ELSE PushCombos(p, a + 1, nPersonas, nAngles, pushed)

allCombos(nPersonas, nAngles) == PushCombos(1, 1, nPersonas, nAngles, <<>>)

\* Faulty variant: the total is not capped.
cappedAdsPerComboUncapped(ads, nCombos) == ads

\* Math.min(adsPerCombo, Math.floor(MAX_TOTAL_ADS / allCombos.length) || 1)
cappedAdsPerCombo(ads, nCombos) ==
  Min(ads, IF MAX_TOTAL_ADS \div nCombos = 0 THEN 1
           ELSE MAX_TOTAL_ADS \div nCombos)

\* The expansion loops, from combo c and variant v (counted from 0) on, with
\* the items pushed so far.
RECURSIVE PushItems(_, _, _, _, _)
PushItems(c, v, combos, capped, acc) ==
  IF c > Len(combos) THEN acc
  ELSE IF v >= capped THEN PushItems(c + 1, 0, combos, capped, acc)
  ELSE PushItems(c, v + 1, combos, capped,
         Append(acc, [index |-> Len(acc) + 1,
                      persona |-> combos[c].persona,
                      angle |-> combos[c].angle,
                      variant |-> IF capped > 1 THEN v + 1 ELSE 0]))

planItems(combos, capped) == PushItems(1, 0, combos, capped, <<>>)

\* A plan request before it is handled: the personas and angles resolved
\* for it, the parsed ads_per_combo; then the combos, the plan and the
\* status code of the response (0: none yet).
PlanRequest(nPersonas, nAngles, parsed) ==
  [pc |-> "start", nPersonas |-> nPersonas, nAngles |-> nAngles,
   parsed |-> parsed, combos |-> <<>>, capped |-> 0, total_ads |-> 0,
   items |-> <<>>, code |-> 0]

InitPlan ==
  /\ req = [client |-> 1, isArray |-> TRUE, items |-> <<>>, goal |-> NULL]
  /\ gens = InitGens
  /\ batches = InitBatches
  /\ nextGenId = 2
  /\ nextBatchId = 2
  /\ spc = "idle"
  /\ batchId = NoBatch
  /\ ins = <<>>
  /\ stamp = <<>>
  /\ response = NoResponse
  /\ next = 0
  /\ exec = <<>>
  /\ pool = [exited |-> 0, dead |-> 0]
  /\ falKey = FALSE
  /\ falFailure = KeyMissing
  /\ falRaw = <<>>
  /\ faults = 0
  /\ overtakes = 0
  /\ calls = <<>>
  /\ claimed = <<>>
  /\ call = NoCall
  /\ abandoned = 0
  /\ single = NoSingle
  /\ clientIds = Clients
  /\ del = <<>>
  /\ plan \in {PlanRequest(p, a, n) :
                 p \in 0..MaxPersonas, a \in 0..MaxAngles, n \in ParsedAds}

\* What no step of the route changes.
planRest ==
  <<env, store, handler, poolVars, faults, overtakes, calls, call, abandoned,
    single, clientIds, del>>

\* Up to the call of the language model: the 400 for no persona or no angle,
\* otherwise the combos and the capped number of ads per combo.
PCombos ==
  /\ plan.pc = "start"
  /\ plan' =
       IF plan.nPersonas = 0 \/ plan.nAngles = 0
       THEN [plan EXCEPT !.pc = "answered", !.code = 400]
       ELSE LET combos == allCombos(plan.nPersonas, plan.nAngles)
            IN [plan EXCEPT
                  !.pc = "enrich",
                  !.combos = combos,
                  !.capped = cappedAdsPerCombo(adsPerCombo(plan.parsed),
                                               Len(combos))]
  /\ UNCHANGED planRest

\* The language model answers: the items are expanded and the plan is sent.
PExpand ==
  /\ plan.pc = "enrich"
  /\ LET items == planItems(plan.combos, plan.capped)
     IN plan' = [plan EXCEPT !.pc = "answered", !.code = 200,
                             !.items = items, !.total_ads = Len(items)]
  /\ UNCHANGED planRest

\* The language model fails: 503 without its key, 502 otherwise.
PEnrichFail ==
  /\ plan.pc = "enrich"
  /\ \E status \in {502, 503} :
       plan' = [plan EXCEPT !.pc = "answered", !.code = status]
  /\ UNCHANGED planRest

NextPlan == PCombos \/ PExpand \/ PEnrichFail

SpecPlan == InitPlan /\ [][NextPlan]_vars

\* ================================================================ properties
\* The child generation rows of the submitted batch.
Kids == {g \in DOMAIN gens : /\ gens[g].campaign_batch_id = batchId
                             /\ gens[g].client_id = req.client}

InFlight(g) == gens[g].status \in {"pending", "processing"}

Unfinished == {i \in Jobs : exec[i].pc \notin {"unclaimed", "settled"}}

AllSettled == spc = "responded" /\ \A i \in Jobs : exec[i].pc = "settled"

\* The status the derivation rule of the batch gives for the current rows.
RuleStatus ==
  IF \E g \in Kids : InFlight(g) THEN "running"
  ELSE IF Cardinality({g \in Kids : gens[g].status = "failed"}) = Cardinality(Kids)
       THEN "failed"
  ELSE "done"

\* C1: refreshBatchStatus derives the status from the child rows its SELECT
\* reads -- running with a pending or processing child, else failed when the
\* failed children are all the children, else done -- and its UPDATE writes
\* exactly that status to the batch row and to nothing else.
C1_StatusDerivedFromChildren ==
  [][\A i \in Jobs :
       /\ (exec[i].pc = "refR" /\ exec'[i].pc = "refW")
            => exec'[i].st = RuleStatus
       /\ (exec[i].pc = "refW" /\ exec'[i].pc = "settled" /\ faults' = faults)
            => /\ batches'[batchId].status = exec[i].st
               /\ \A b \in DOMAIN batches :
                    /\ b # batchId => batches'[b] = batches[b]
                    /\ batches'[b].total_items = batches[b].total_items
                    /\ batches'[b].client_id = batches[b].client_id]_vars

\* A recomputation that read one failed and one done child, none in flight,
\* and derived `done`.
C1_Witness ==
  \E i \in Jobs :
    /\ exec[i].pc = "refW"
    /\ exec[i].st = "done"
    /\ \E g \in Kids : gens[g].status = "failed"
    /\ \E g \in Kids : gens[g].status = "done"
    /\ \A g \in Kids : ~InFlight(g)

\* C2: once every job has finished and every recomputation has returned
\* (no store statement having failed), the persisted batch status is the
\* derivation of the children's final statuses: failed if all failed, else
\* done, never running.
C2_FinalStatusIsDerived ==
  (AllSettled /\ faults = 0) =>
     batches[batchId].status =
       (IF \A g \in Kids : gens[g].status = "failed" THEN "failed" ELSE "done")

\* C3: at every moment at most min(3, N) executions of executeItem are
\* unfinished, and at most 3 calls of the image generator are in flight.
C3_ConcurrencyCap ==
  /\ Cardinality(Unfinished) <= Min(3, N)
  /\ Cardinality({i \in Jobs : exec[i].pc = "call"}) <= 3

\* Four jobs: three generator calls in flight while the fourth job waits.
C3_Witness ==
  /\ N = 4
  /\ Cardinality({i \in Jobs : exec[i].pc = "call"}) = 3
  /\ \E i \in Jobs : exec[i].pc = "unclaimed"

\* C4: a submit whose items value is not an array, is empty or has more than
\* 20 entries is answered with a validation error by the first synchronous
\* block of the handler and changes nothing: no row is created and no job is
\* started.  A list of exactly 20 entries is not rejected.
C4_InvalidSubmitChangesNothing ==
  /\ (~req.isArray \/ Len(req.items) = 0 \/ Len(req.items) > 20) =>
       /\ spc \in {"start", "rejected"}
       /\ spc = "rejected" => response.code = 400
       /\ gens = InitGens
       /\ batches = InitBatches
       /\ nextGenId = 2 /\ nextBatchId = 2
       /\ next = 0
       /\ \A i \in Jobs : exec[i].pc = "unclaimed" /\ claimed[i] = 0
  /\ (req.isArray /\ Len(req.items) \in 1..20) =>
       /\ spc # "rejected"
       /\ response.code # 400

\* A list of 21 entries has been rejected.
C4_Witness ==
  /\ Len(req.items) = 21
  /\ spc = "rejected"
  /\ response.code = 400

\* C5: after a successful submit of N jobs and before any worker step the
\* store holds exactly one new batch row, with total_items = N and status
\* running, and exactly N new generation rows, each pending, linked to the
\* batch and owned by the submitting workspace; total_items never changes.
BeforeWorkers ==
  spc = "responded" /\ \A i \in Jobs : exec[i].pc \in {"unclaimed", "procW"}

C5_SubmitCreatesBatchAndRows ==
  /\ [](BeforeWorkers =>
          LET newBatches == DOMAIN batches \ DOMAIN InitBatches
              newGens == DOMAIN gens \ DOMAIN InitGens
          IN /\ Cardinality(newBatches) = 1
             /\ \A b \in newBatches :
                  /\ batches[b].total_items = Len(req.items)
                  /\ batches[b].status = "running"
                  /\ batches[b].client_id = req.client
                  /\ Cardinality(newGens) = Len(req.items)
                  /\ \A g \in newGens :
                       /\ gens[g].status = "pending"
                       /\ gens[g].campaign_batch_id = b
                       /\ gens[g].client_id = req.client)
  /\ [][\A b \in DOMAIN batches :
          batches'[b].total_items = batches[b].total_items]_vars

\* Four jobs submitted, one INSERT having overtaken another, no worker step yet.
C5_Witness ==
  /\ BeforeWorkers
  /\ Len(req.items) = 4
  /\ overtakes = 1

\* C6: at the moment the submit response is sent every generation of the
\* batch is still pending, the response lists one (position, generation id,
\* pending) entry per job in list order, and no later step, a failure of the
\* background execution included, alters the response.
C6_ResponseBeforeExecution ==
  [][/\ (response.code = 0 /\ response'.code = 200) =>
          /\ \A g \in DOMAIN gens' :
               gens'[g].campaign_batch_id = batchId' =>
                 gens'[g].status = "pending"
          /\ response'.batch_id = batchId'
          /\ Len(response'.items) = Len(req.items)
          /\ \A i \in 1..Len(req.items) :
               LET e == response'.items[i]
               IN /\ e.status = "pending"
                  /\ e.index = i
                  /\ e.generation_id \in DOMAIN gens'
                  /\ gens'[e.generation_id].metadata.batch_item_index = i
                  /\ gens'[e.generation_id].campaign_batch_id = batchId'
     /\ response.code # 0 => response' = response]_vars

\* The success response stands while a job has failed and a worker of the
\* pool has rejected.
C6_Witness ==
  /\ response.code = 200
  /\ Len(response.items) = 4
  /\ pool.dead = 1
  /\ \E g \in Kids : gens[g].status = "failed"

\* C7: a generation's status changes only pending -> processing,
\* processing -> done or processing -> failed.
C7_StatusLifecycle ==
  [][\A g \in DOMAIN gens :
       gens'[g].status # gens[g].status =>
         <<gens[g].status, gens'[g].status>> \in
            {<<"pending", "processing">>, <<"processing", "done">>,
             <<"processing", "failed">>}]_vars

\* C8: each job index is claimed once, the generator is invoked at most once
\* per job, and a generation row is updated only by a step of the one
\* execution of its own job.
C8_OneExecutionPerJob ==
  /\ [](\A i \in Jobs :
          /\ claimed[i] <= 1
          /\ calls[i] <= 1
          /\ exec[i].pc # "unclaimed" => claimed[i] = 1)
  /\ [][\A g \in DOMAIN gens :
          (gens'[g].status # gens[g].status \/ gens'[g].error # gens[g].error)
            => \E i \in Jobs :
                 /\ ins[i] = g
                 /\ claimed[i] = 1
                 /\ exec[i].pc \in {"procW", "doneW", "failW"}
                 /\ exec'[i].pc # exec[i].pc
                 /\ \A j \in Jobs \ {i} : exec'[j] = exec[j]
                 /\ \A h \in DOMAIN gens \ {g} : gens'[h] = gens[h]]_vars

\* Four jobs have all been executed, one of them failed at the provider after
\* a single call.
C8_Witness ==
  /\ AllSettled
  /\ Len(req.items) = 4
  /\ \A i \in Jobs : claimed[i] = 1 /\ calls[i] = 1
  /\ \E i \in Jobs : exec[i].outcome = "FAL_ERROR" /\ gens[ins[i]].status = "failed"

\* C9: with a store that does not fail and fair scheduling, every generation
\* of an accepted batch ends done or failed, every worker returns, and the
\* batch status ends, and stays, different from running.
C9_BatchSettles ==
  <>[](spc = "responded" =>
         /\ \A g \in Kids : gens[g].status \in {"done", "failed"}
         /\ pool.exited = Min(3, Len(req.items))
         /\ batches[batchId].status # "running")

\* The error text executeItem is to record for a failure with this message.
RecordedText(message) == IF message = "" THEN "Generation failed" ELSE message

StoredDone(i) ==
  /\ exec[i].pc \in {"refR", "refW", "settled"}
  /\ exec[i].outcome = "ok"
  /\ exec[i].msg = NULL

C12_RecomputeOncePerJob ==
  /\ [](\A i \in Jobs :
          /\ exec[i].refreshed <= 1
          /\ exec[i].pc = "settled" => exec[i].refreshed = 1
          /\ exec[i].pc \in {"unclaimed", "procW", "call", "doneW", "failW"}
               => exec[i].refreshed = 0)
  /\ [][\A i \in Jobs :
          (/\ exec[i].pc \in {"refR", "refW"}
           /\ exec'[i].pc = "settled"
           /\ faults' = faults + 1
           /\ ~exec[i].thrown) =>
             /\ gens' = gens
             /\ batches' = batches
             /\ pool'.dead = pool.dead
             /\ IF next < N
                THEN /\ next' = next + 1
                     /\ exec[next + 1].pc = "unclaimed"
                     /\ exec'[next + 1].pc = "procW"
                     /\ pool'.exited = pool.exited
                ELSE /\ next' = next
                     /\ pool'.exited = pool.exited + 1
             /\ \A j \in Jobs \ {i} :
                  (next < N /\ j = next + 1) \/ exec'[j] = exec[j]]_vars

\* Four jobs all done and all workers returned although one recomputation
\* failed.
C12_Witness ==
  /\ AllSettled
  /\ Len(req.items) = 4
  /\ faults = 1
  /\ pool.exited = 3
  /\ \A i \in Jobs : StoredDone(i) /\ ~exec[i].thrown /\ exec[i].refreshed = 1

\* C13: a store write of a job's outcome that fails stops no worker, and once
\* the pool is idle every job of the batch has been executed.
C13_WriteFailureKeepsWorker ==
  /\ pool.dead = 0
  /\ (spc = "responded" /\ Unfinished = {}) =>
        \A i \in Jobs : exec[i].pc = "settled"

\* C14: with no store failure, once the batch has been worked off every job
\* was executed once, each generation is done or failed as its own call went,
\* the submitter got the success response, no worker stopped, and a batch with
\* a succeeding and a failing job is done.
C14_FailureStaysWithItsJob ==
  (AllSettled /\ faults = 0) =>
     /\ \A i \in Jobs :
          /\ calls[i] = 1
          /\ gens[ins[i]].status =
               (IF exec[i].outcome = "ok" THEN "done" ELSE "failed")
     /\ response.code = 200
     /\ pool.dead = 0
     /\ ((\E i \in Jobs : exec[i].outcome = "ok")
           /\ (\E i \in Jobs : exec[i].outcome # "ok"))
          => batches[batchId].status = "done"

\* C15: once every child of the batch has left pending/processing and the
\* batch status is done or failed, no step changes the batch status (stated
\* for the behaviours in which no store statement fails).
C15_BatchStatusOneWay ==
  [][(/\ faults' = 0
      /\ batchId # NoBatch
      /\ Kids # {}
      /\ \A g \in Kids : ~InFlight(g)
      /\ batches[batchId].status \in {"done", "failed"})
       => batches'[batchId].status = batches[batchId].status]_vars

\* C16: refreshBatchStatus on a batch without child generations yields done.
C16_EmptyBatchIsDone ==
  (call.op = "refreshBatchStatus" /\ call.total = 0) => call.result = "done"

\* An entry with a resolvable URL: a non-empty string, or an object with a
\* non-empty url.
Resolvable(img) ==
  \/ img.type = "string" /\ img.url # ""
  \/ img.type = "object" /\ img.url \notin {NULL, UNDEFINED, ""}

\* C17: the output of normalizeGenerationImages holds exactly the entries
\* with a resolvable URL, none without URL, the empty list for a non-array;
\* normalizing the output again with the same selected URL returns it
\* unchanged.
C17_NormalizeIdempotent ==
  call.op = "normalizeGenerationImages" =>
    /\ \A k \in 1..Len(call.result) :
         /\ call.result[k].type = "object"
         /\ ~Falsy(call.result[k].url)
    /\ Len(call.result) =
         Cardinality({k \in 1..Len(call.images.items) :
                        call.images.isArray /\ Resolvable(call.images.items[k])})
    /\ normalizeGenerationImages(JsArray(call.result), call.selected)
         = call.result

\* A list of an object with every property and a null entry, normalized with
\* the object's URL selected: one entry, selected, its properties kept.
C17_Witness ==
  /\ call.op = "normalizeGenerationImages"
  /\ call.images = JsArray(<<FullImageObject, ImageOther>>)
  /\ call.selected = "u2"
  /\ Len(call.result) = 1
  /\ call.result[1].is_selected
  /\ call.result[1].status = "archived"

\* C18: in every state, an entry of a generation's generated_images has
\* is_selected true exactly when its URL equals the generation's
\* selected_image_url (never when that is null).
C18_SelectionFlagMatchesSelectedUrl ==
  \A g \in DOMAIN gens :
    \A k \in 1..Len(gens[g].generated_images) :
      gens[g].generated_images[k].is_selected
        <=> (/\ gens[g].selected_image_url # NULL
             /\ gens[g].generated_images[k].url = gens[g].selected_image_url)

CreationKeys ==
  {"campaign_batch_id", "batch_item_index", "persona", "angle", "goal",
   "strategy_rationale"}

\* C19: the `done` update of a job leaves every metadata key stored at
\* creation in place with its value and adds the provider's request id, seed
\* and model name.
C19_DoneKeepsCreationMetadata ==
  [][\A g \in DOMAIN gens :
       (gens[g].status # "done" /\ gens'[g].status = "done") =>
          /\ CreationKeys \subseteq DOMAIN gens[g].metadata
          /\ \A k \in DOMAIN gens[g].metadata :
               /\ k \in DOMAIN gens'[g].metadata
               /\ gens'[g].metadata[k] = gens[g].metadata[k]
          /\ {"fal_request_id", "fal_seed", "fal_model"}
               \subseteq DOMAIN gens'[g].metadata
          /\ gens'[g].metadata["fal_request_id"] = "r1"
          /\ gens'[g].metadata["fal_seed"] = "s1"
          /\ gens'[g].metadata["fal_model"] = "fal-ai/flux/dev"]_vars

\* A done generation of position 2 with the goal of its batch and the
\* provider's model name.
C19_Witness ==
  \E i \in Jobs :
    /\ StoredDone(i)
    /\ gens[ins[i]].status = "done"
    /\ gens[ins[i]].metadata.batch_item_index = 2
    /\ gens[ins[i]].metadata.goal = "launch"
    /\ gens[ins[i]].metadata.fal_model = "fal-ai/flux/dev"

Columns == DOMAIN createGenerationRow(1, "", NoMetadata)

\* C20: a call of updateGeneration changes only the row with the given id
\* and workspace, and of that row only the updatable columns named in fields
\* (each to the supplied value, generated_images to a normalized list); with
\* no updatable key nothing is written; with no matching row the result is
\* null and nothing is written.
C20_UpdateTouchesOnlyNamedColumns ==
  [][(call'.op = "updateGeneration" /\ call'.n = call.n + 1) =>
       LET id == call'.id
           f == call'.fields
           hit == id \in DOMAIN gens /\ gens[id].client_id = call'.client
       IN /\ DOMAIN gens' = DOMAIN gens
          /\ batches' = batches
          /\ \A g \in DOMAIN gens : (g # id \/ ~hit) => gens'[g] = gens[g]
          /\ hit =>
               \A col \in Columns :
                 /\ col \notin (DOMAIN f \cap UPDATABLE)
                      => gens'[id][col] = gens[id][col]
                 /\ (col \in DOMAIN f \cap UPDATABLE /\ col # "generated_images")
                      => gens'[id][col] = f[col]
          /\ DOMAIN f \cap UPDATABLE = {} => gens' = gens
          /\ call'.result.found = hit]_vars

\* A call marked the row of workspace 1 failed, with an error text, and left
\* its prompt, images and metadata as they were.
C20_Witness ==
  /\ call.op = "updateGeneration"
  /\ call.id = 2 /\ call.client = 1
  /\ DOMAIN call.fields = {"status", "error", "client_id"}
  /\ gens[2].status = "failed"
  /\ gens[2].error = "e1"
  /\ gens[2].prompt = "p2"
  /\ gens[2].client_id = 1

\* C21: every failure of generateImages carries one of the codes
\* FAL_KEY_MISSING, FAL_TIMEOUT, FAL_ERROR, the first exactly when the
\* credentials are missing; and the generator is called once per job.
C21_FailureHasOneOfThreeCodes ==
  \A i \in Jobs :
    /\ exec[i].outcome \in
         {NULL, "ok", "FAL_KEY_MISSING", "FAL_TIMEOUT", "FAL_ERROR"}
    /\ (exec[i].outcome = "FAL_KEY_MISSING") <=> (exec[i].outcome # NULL /\ ~falKey)
    /\ calls[i] <= 1

\* The generation rows linked to batch b in workspace c.
OwnChildren(b, c) ==
  {g \in DOMAIN gens : gens[g].campaign_batch_id = b /\ gens[g].client_id = c}

\* C22: getCampaignBatch returns null when the workspace has no batch of that
\* id; otherwise it returns the batch row with exactly one item per child
\* generation, each with the generation's status, error and recorded
\* position, and as image URL the selected image URL if set, else the URL of
\* the first generated image, else null.
C22_BatchViewMatchesRows ==
  call.op = "getCampaignBatch" =>
    IF \A b \in DOMAIN batches :
         ~(b = call.id /\ batches[b].client_id = call.client)
    THEN ~call.result.found
    ELSE LET items == call.result.items
         IN /\ call.result.found
            /\ call.result.batch = batches[call.id]
            /\ Len(items) = Cardinality(OwnChildren(call.id, call.client))
            /\ \A g \in OwnChildren(call.id, call.client) :
                 \E k \in 1..Len(items) :
                   /\ items[k].generation_id = g
                   /\ \A j \in 1..Len(items) :
                        items[j].generation_id = g => j = k
                   /\ items[k].status = gens[g].status
                   /\ items[k].error = gens[g].error
                   /\ items[k].index =
                        (IF "batch_item_index" \in DOMAIN gens[g].metadata
                         THEN gens[g].metadata.batch_item_index ELSE 0)
                   /\ items[k].image_url =
                        (IF gens[g].selected_image_url \notin {NULL, ""}
                         THEN gens[g].selected_image_url
                         ELSE IF gens[g].generated_images # <<>>
                         THEN gens[g].generated_images[1].url
                         ELSE NULL)

\* A view of a batch with two children: one has no selected image and shows
\* its first generated image, the other shows its selected image.
C22_Witness ==
  /\ call.op = "getCampaignBatch"
  /\ call.result.found
  /\ Len(call.result.items) = 2
  /\ gens[2].selected_image_url = NULL
  /\ call.result.items[1].image_url = "u1"
  /\ call.result.items[1].index = 0
  /\ call.result.items[2].image_url = "u4"
  /\ call.result.items[2].index = 2

\* C24: a call made for one workspace leaves the rows of every other
\* workspace unchanged and returns nothing of them: a batch of another
\* workspace is not found, the item view holds only generations of the
\* caller's workspace, updateGeneration finds no row of another workspace and
\* refreshBatchStatus counts only the caller's rows.
C24_WorkspaceIsolation ==
  [][call'.n # call.n /\ call'.op # "normalizeGenerationImages" =>
       /\ DOMAIN gens' = DOMAIN gens
       /\ DOMAIN batches' = DOMAIN batches
       /\ \A g \in DOMAIN gens :
            gens[g].client_id # call'.client => gens'[g] = gens[g]
       /\ \A b \in DOMAIN batches :
            batches[b].client_id # call'.client => batches'[b] = batches[b]
       /\ (call'.op = "getCampaignBatch" =>
             /\ (/\ call'.id \in DOMAIN batches
                 /\ batches[call'.id].client_id # call'.client
                 => ~call'.result.found)
             /\ \A k \in 1..Len(call'.result.items) :
                  gens[call'.result.items[k].generation_id].client_id
                    = call'.client)
       /\ (/\ call'.op = "updateGeneration"
           /\ call'.id \in DOMAIN gens
           /\ gens[call'.id].client_id # call'.client
           => ~call'.result.found)
       /\ (call'.op = "refreshBatchStatus" =>
             call'.total = Cardinality(OwnChildren(call'.id, call'.client)))
  ]_vars

\* Workspace 1 has refreshed the batch of workspace 2, after an update of a
\* generation of workspace 2 was attempted for workspace 1; both rows are as
\* they were.
C24_Witness ==
  /\ call.op = "refreshBatchStatus"
  /\ call.n = 2
  /\ call.id = 1
  /\ call.client = 1
  /\ batches[1] = InitBatches[1]
  /\ gens[1] = InitGens[1]

\* What getCampaignBatch returns for the submitted batch in the current state.
BatchView == getCampaignBatch(gens, batches, batchId, req.client)

\* The positions the item view reports for generation g.
ViewIndexes(g) ==
  {BatchView.items[k].index :
     k \in {j \in 1..Len(BatchView.items) :
              BatchView.items[j].generation_id = g}}

\* C23 as stated: the tag of every generation is its job's list position,
\* the tags of a batch are pairwise distinct, and the submit response and
\* getCampaignBatch report the same position for a generation.
C23_TagIsListPosition ==
  /\ \A i \in Jobs :
       ins[i] > 0 =>
         /\ gens[ins[i]].metadata.batch_item_index = i
         /\ (response.code = 200 =>
               /\ response.items[i].index = i
               /\ ViewIndexes(ins[i]) \subseteq {response.items[i].index})
  /\ \A i \in Jobs, j \in Jobs :
       (i # j /\ ins[i] > 0 /\ ins[j] > 0) =>
         gens[ins[i]].metadata.batch_item_index
           # gens[ins[j]].metadata.batch_item_index

\* C23 amended: the tag of a generation is the `index` its item carries, or
\* the item's list position when it carries none; the submit response
\* reports that tag, and getCampaignBatch reports it whenever it lists the
\* generation, whatever the jobs have done since.
C23_TagIsItemIndexOrPosition ==
  \A i \in Jobs :
    ins[i] > 0 =>
      LET tag == gens[ins[i]].metadata.batch_item_index
      IN /\ (req.items[i] > 0 => tag = req.items[i])
         /\ (req.items[i] = 0 => tag = i)
         /\ (response.code = 200 =>
               /\ response.items[i].generation_id = ins[i]
               /\ response.items[i].index = tag
               /\ ViewIndexes(ins[i]) = {tag})

\* Two items, the first carrying index 2 and the second none: both
\* generations are tagged 2; the second job is done while the first is still
\* being processed, and the view lists both.
C23_Witness ==
  /\ req.items = <<2, 0>>
  /\ response.code = 200
  /\ gens[ins[2]].status = "done"
  /\ gens[ins[1]].status = "processing"
  /\ Len(BatchView.items) = 2
  /\ ViewIndexes(ins[1]) = {2}
  /\ ViewIndexes(ins[2]) = {2}

\* C25: the generation rows of a batch are created in list order: of two
\* jobs that both have a generation row, the one earlier in the list has the
\* smaller id, so the id-ordered item view lists the items in submitted order.
C25_RowsCreatedInListOrder ==
  \A i \in Jobs, j \in Jobs :
    (i < j /\ ins[i] > 0 /\ ins[j] > 0) => ins[i] < ins[j]

\* No submit is in progress: the handler has answered and every INSERT and
\* every batch-link UPDATE it issued has executed or failed.
SubmitOver ==
  /\ spc \in {"rejected", "error", "responded"}
  /\ \/ batchId = NoBatch
     \/ \A i \in Jobs : ins[i] # 0 /\ (ins[i] > 0 => stamp[i] # "pending")

\* C27: whenever no submit is in progress, every batch row has exactly
\* total_items child generation rows linked to it.
C27_BatchHasAllItsChildren ==
  SubmitOver =>
    \A b \in DOMAIN batches :
      Cardinality(OwnChildren(b, batches[b].client_id)) = batches[b].total_items

\* The provider requests that have not completed at the provider: those a
\* job awaits and those left behind by a timeout.
Outstanding ==
  Cardinality({i \in Jobs : falKey /\ exec[i].pc = "call"}) + abandoned

\* C26: at most 3 provider requests are outstanding at the provider at any
\* moment, the requests whose client-side timeout has fired included.
C26_OutstandingRequestsBounded == Outstanding <= BATCH_CONCURRENCY

\* The single-generation request has been answered.
Answered == single.pc = "answered"

\* generateImages failed for the single-generation request.
ProviderFailed == single.outcome \notin {NULL, "ok"}

\* The generation row of the request is stored `failed` with a non-empty
\* error text.
StoredFailed ==
  /\ single.genId \in DOMAIN gens
  /\ gens[single.genId].status = "failed"
  /\ \E k \in 1..Len(gens[single.genId].error) :
       gens[single.genId].error[k] # ""

\* The parts of C28 that hold as stated: the row exists before the provider
\* is called, a 201 means the row is stored `done`, a missing or blank
\* prompt is answered 400 and never creates a row.
SingleCommon ==
  /\ (single.pc = "call" \/ single.outcome # NULL) =>
       single.genId \in DOMAIN gens
  /\ single.pc = "call" => gens[single.genId].status = "processing"
  /\ single.code = 201 =>
       /\ single.outcome = "ok"
       /\ gens[single.genId].status = "done"
  /\ Blank(single.prompt) =>
       /\ DOMAIN gens = DOMAIN InitGens
       /\ single.code \in {0, 400}
  /\ single.code = 400 => Blank(single.prompt)
  /\ (\A k \in 1..Len(single.prompt.chars) : single.prompt.chars[k] = " ")
       => single.genId = 0

C29_SomeClientRemains == clientIds # {}

\* C30: a plan that is sent has at most 12 combos and at most 20 items,
\* total_ads is the number of items, the items carry the indexes 1..total_ads
\* in order, and the item list passes the size check of submit.
C30_PlanFitsSubmit ==
  plan.code = 200 =>
    /\ Len(plan.combos) \in 1..12
    /\ Len(plan.items) \in 1..20
    /\ plan.total_ads = Len(plan.items)
    /\ \A k \in 1..Len(plan.items) : plan.items[k].index = k
    /\ ~Rejected([isArray |-> TRUE,
                  items |-> [k \in 1..Len(plan.items) |-> plan.items[k].index]])

\* Ten combos and three ads per combo asked for: two per combo are planned,
\* twenty items.
C30_Witness ==
  /\ plan.code = 200
  /\ Len(plan.combos) = 10
  /\ adsPerCombo(plan.parsed) = 3
  /\ plan.capped = 2
  /\ Len(plan.items) = 20

====
